---- MODULE Spec2Model ----
(***************************************************************************)
(* wspotsave (src/main.go): scan the Windows Spotlight cache, decide which *)
(* cached files are wallpapers from their EXIF pixel dimensions, and copy  *)
(* the qualifying ones to the output folder as <name>.jpg.                 *)
(*                                                                         *)
(* The model is the program from main's loadConfig call (line 45) to its   *)
(* exit, run up to MaxRuns times over one file system.  A path is a        *)
(* sequence of components and a component a sequence of string pieces, so  *)
(* that d.Name()+".jpg" and filepath.Join are computed, not looked up.     *)
(***************************************************************************)
EXTENDS Integers, Sequences, FiniteSets, TLC

\* ---------------------------------------------------------------- bounds
\* Largest pixel dimension / threshold drawn for the inputs.
MaxDim == 2
\* Invocations of the program over the same file system.
MaxRuns == 2
\* Edits of wspotsave.ini made by the user while the program is in use.
MaxCfgEdits == 1

\* ------------------------------------------------------ program constants
DefaultMinimumWidth == 1080
DefaultMinimumHeight == 1080

\* ----------------------------------------------------------------- paths
\* defaultIniConfig's SourceDir and OutputDir (lines 148-149), abbreviated.
DefaultSourceDir == << <<"Assets">> >>
DefaultOutputDir == << <<"Pictures">> >>
\* The empty string: what MapTo leaves in a string field whose key is absent.
EmptyPath == << >>

\* filepath.Join(dir, name)
Join(dir, name) == Append(dir, name)
\* d.Name(): the last component of the entry's path
Name(path) == path[Len(path)]
\* the directory holding path
Dir(path) == SubSeq(path, 1, Len(path) - 1)
\* name + ".jpg"
AddJpg(name) == Append(name, ".jpg")

\* The entries a source tree of the model may hold, in the lexical order in
\* which filepath.WalkDir hands them to the callback.
SrcRoot == DefaultSourceDir
SubDir == Join(SrcRoot, <<"d">>)
SrcFiles == << Join(SrcRoot, <<"a">>), Join(SrcRoot, <<"b">>), Join(SubDir, <<"a">>) >>
SrcEntries == << SrcRoot, SrcFiles[1], SrcFiles[2], SubDir, SrcFiles[3] >>
OutRoot == DefaultOutputDir
OutFiles == { Join(OutRoot, AddJpg(<<"a">>)), Join(OutRoot, AddJpg(<<"b">>)) }
Paths == { SrcEntries[i] : i \in 1..Len(SrcEntries) } \cup {OutRoot} \cup OutFiles

Range(s) == { s[i] : i \in 1..Len(s) }
SrcFileSet == Range(SrcFiles)

\* ------------------------------------------------------------ file values
\* An EXIF tag or an ini key as stored: absent, present and not a decimal
\* integer, or present with a decimal integer value.
NoTag == [present |-> FALSE, numeric |-> FALSE, val |-> 0]
BadTag == [present |-> TRUE, numeric |-> FALSE, val |-> 0]
IntTag(n) == [present |-> TRUE, numeric |-> TRUE, val |-> n]

Absent == [kind |-> "absent", readable |-> FALSE, exif |-> FALSE,
           w |-> NoTag, h |-> NoTag, bytes |-> "none"]
Directory(r) == [kind |-> "dir", readable |-> r, exif |-> FALSE,
                 w |-> NoTag, h |-> NoTag, bytes |-> "none"]
\* A cached image with EXIF PixelXDimension / PixelYDimension tags.
Image(wt, ht) == [kind |-> "file", readable |-> TRUE, exif |-> TRUE,
                  w |-> wt, h |-> ht, bytes |-> "full"]
\* A file that is no EXIF container.
NoExif == [kind |-> "file", readable |-> TRUE, exif |-> FALSE,
           w |-> NoTag, h |-> NoTag, bytes |-> "full"]
\* A file os.Open refuses.
Unreadable == [NoExif EXCEPT !.readable = FALSE]
\* A file already in the output folder that is no copy of a source file.
Foreign == [NoExif EXCEPT !.bytes = "other"]
\* What os.Create leaves before anything is written.
EmptyFile == [NoExif EXCEPT !.bytes = "empty"]

\* os.Stat / os.Lstat: the entry at path, Absent when there is none.
Stat(fsys, path) == IF path \in DOMAIN fsys THEN fsys[path] ELSE Absent

\* ---------------------------------------------------------- configuration
\* wspotsave.ini: missing, not parseable as ini, or a set of keys. src and
\* out say whether the SourceDir and OutputDir keys are there; a key that
\* is there names the default folder, so the two folders are always apart.
IniFile(s, o, wt, ht) == [state |-> "ok", src |-> s, out |-> o, w |-> wt, h |-> ht]
NoIni == [state |-> "missing", src |-> FALSE, out |-> FALSE, w |-> NoTag, h |-> NoTag]
BadIni == [NoIni EXCEPT !.state = "malformed"]

\* defaultIniConfig (lines 145-159)
defaultIniConfig == IniFile(TRUE, TRUE, IntTag(DefaultMinimumWidth), IntTag(DefaultMinimumHeight))

\* strconv.Atoi / Key.Int64: the value, or an error
Atoi(tag) == IF tag.present /\ tag.numeric
             THEN [err |-> FALSE, val |-> tag.val]
             ELSE [err |-> TRUE, val |-> 0]

\* The config struct (lines 17-22) with its zero values.
ZeroConfig == [SourceDir |-> EmptyPath, OutputDir |-> EmptyPath,
               MinimumWidth |-> 0, MinimumHeight |-> 0]

\* iniConfig.MapTo(config), line 126: the non-strict mapping of ini.v1. A
\* key that is absent, or whose value does not parse, leaves the field at
\* its zero value and is no error.
MapTo(ini) ==
  [SourceDir |-> IF ini.src THEN DefaultSourceDir ELSE EmptyPath,
   OutputDir |-> IF ini.out THEN DefaultOutputDir ELSE EmptyPath,
   MinimumWidth |-> IF Atoi(ini.w).err THEN 0 ELSE Atoi(ini.w).val,
   MinimumHeight |-> IF Atoi(ini.h).err THEN 0 ELSE Atoi(ini.h).val]

\* restoreConfig (lines 135-142): the defaults, saved to the file; log.Fatal
\* when the file cannot be written.
restoreConfig(writable) ==
  [fatal |-> ~writable, ini |-> defaultIniConfig]

\* loadConfig (lines 118-131): ini.Load, the defaults on any load error.
\* Returns the config, the file as left on disk, and whether log.Fatal ran.
loadConfig(file, writable) ==
  IF file.state # "ok"
  THEN LET r == restoreConfig(writable)
       IN  IF r.fatal
           THEN [fatal |-> TRUE, config |-> ZeroConfig, file |-> file]
           ELSE [fatal |-> FALSE, config |-> MapTo(r.ini), file |-> r.ini]
  ELSE [fatal |-> FALSE, config |-> MapTo(file), file |-> file]

\* ------------------------------------------------------------- inspection
\* imageSize (lines 163-190)
imageSize(f) ==
  LET fail == [err |-> TRUE, width |-> 0, height |-> 0]
  IN  IF f.kind # "file" \/ ~f.readable THEN fail
      ELSE IF ~f.exif THEN fail
      ELSE IF ~f.w.present THEN fail
      ELSE IF ~f.h.present THEN fail
      ELSE IF Atoi(f.w).err THEN fail
      ELSE IF Atoi(f.h).err THEN fail
      ELSE [err |-> FALSE, width |-> Atoi(f.w).val, height |-> Atoi(f.h).val]

\* isImageWallpaper with the comparison of line 204 made non-strict: a file
\* exactly as large as the threshold is turned away.
isImageWallpaperOffByOne(file, writable, f) ==
  LET c == loadConfig(file, writable)
      s == imageSize(f)
  IN  IF c.fatal
      THEN [fatal |-> TRUE, err |-> FALSE, ok |-> FALSE, file |-> c.file]
      ELSE IF s.err
      THEN [fatal |-> FALSE, err |-> TRUE, ok |-> FALSE, file |-> c.file]
      ELSE IF s.width <= c.config.MinimumWidth \/ s.height < c.config.MinimumHeight
      THEN [fatal |-> FALSE, err |-> FALSE, ok |-> FALSE, file |-> c.file]
      ELSE [fatal |-> FALSE, err |-> FALSE, ok |-> TRUE, file |-> c.file]

\* isImageWallpaper (lines 195-208): loads the configuration again, then
\* compares the image's size with it.
isImageWallpaper(file, writable, f) ==
  LET c == loadConfig(file, writable)
      s == imageSize(f)
  IN  IF c.fatal
      THEN [fatal |-> TRUE, err |-> FALSE, ok |-> FALSE, file |-> c.file]
      ELSE IF s.err
      THEN [fatal |-> FALSE, err |-> TRUE, ok |-> FALSE, file |-> c.file]
      ELSE IF s.width < c.config.MinimumWidth \/ s.height < c.config.MinimumHeight
      THEN [fatal |-> FALSE, err |-> FALSE, ok |-> FALSE, file |-> c.file]
      ELSE [fatal |-> FALSE, err |-> FALSE, ok |-> TRUE, file |-> c.file]

\* checkDirectory without the IsDir test of line 218.
checkDirectoryExistsOnly(fsys, dirPath) ==
  Stat(fsys, dirPath).kind = "absent"

\* checkDirectory (lines 211-222): TRUE when it returns an error
checkDirectory(fsys, dirPath) ==
  IF Stat(fsys, dirPath).kind = "absent" THEN TRUE
  ELSE IF Stat(fsys, dirPath).kind # "dir" THEN TRUE
  ELSE FALSE

\* ------------------------------------------------------------------- copy
\* How a copy can end: done, or os.Create, os.Open or io.Copy failing.
CopyOutcomes == {"ok", "create", "open", "copy"}

\* copyFile removing the target again when os.Open or io.Copy failed.
copyFileCleanup(fsys, sourcePath, targetPath, outcome) ==
  IF outcome = "ok"
  THEN [fs |-> [fsys EXCEPT ![targetPath] = fsys[sourcePath]], err |-> "none"]
  ELSE [fs |-> fsys, err |-> "copyFailed"]

\* copyFile with os.Create and os.Open on each other's path: the source
\* is truncated and written.
copyFileSwapped(fsys, sourcePath, targetPath, outcome) ==
  IF outcome = "create"
  THEN [fs |-> fsys, err |-> "createFailed"]
  ELSE [fs |-> [fsys EXCEPT ![sourcePath] = EmptyFile], err |-> "none"]

\* copyFile (lines 225-241): the file system it leaves and its error.
copyFile(fsys, sourcePath, targetPath, outcome) ==
  IF outcome = "create"
  THEN [fs |-> fsys, err |-> "createFailed"]
  ELSE IF outcome = "open"
  THEN [fs |-> [fsys EXCEPT ![targetPath] = EmptyFile], err |-> "openFailed"]
  ELSE IF outcome = "copy"
  THEN [fs |-> [fsys EXCEPT ![targetPath] = [fsys[sourcePath] EXCEPT !.bytes = "partial"]],
        err |-> "copyFailed"]
  ELSE [fs |-> [fsys EXCEPT ![targetPath] = fsys[sourcePath]], err |-> "none"]

\* A line of logs.txt: what was logged ("copy": copying file, "exists",
\* "small", "error": the inspection failed, "createFailed", "openFailed",
\* "copyFailed": copyFile's errors, "fatal") and the path it names.
Entry(k, p) == [kind |-> k, path |-> p]

\* targetPath of line 96
targetPath(outputDir, imagePath) == Join(outputDir, AddJpg(Name(imagePath)))

\* The callback returning the inspection error at line 90 instead of nil:
\* WalkDir stops and main ends with log.Fatalln.
walkDirFuncAbortOnError(fsys, file, writable, outputDir, imagePath, outcome) ==
  LET r == isImageWallpaper(file, writable, Stat(fsys, imagePath))
      t == targetPath(outputDir, imagePath)
      c == copyFile(fsys, imagePath, t, outcome)
  IN  IF r.fatal \/ r.err
      THEN [fs |-> fsys, file |-> r.file, fatal |-> TRUE,
            log |-> << Entry("fatal", imagePath) >>]
      ELSE IF ~r.ok
      THEN [fs |-> fsys, file |-> r.file, fatal |-> FALSE,
            log |-> << Entry("small", imagePath) >>]
      ELSE IF Stat(fsys, t).kind = "absent"
      THEN [fs |-> c.fs, file |-> r.file, fatal |-> FALSE,
            log |-> IF c.err = "none"
                    THEN << Entry("copy", imagePath) >>
                    ELSE << Entry("copy", imagePath), Entry(c.err, imagePath) >>]
      ELSE [fs |-> fsys, file |-> r.file, fatal |-> FALSE,
            log |-> << Entry("exists", imagePath) >>]

\* The callback without the os.Stat test of lines 97-98: it copies over
\* whatever is at the target.
walkDirFuncClobber(fsys, file, writable, outputDir, imagePath, outcome) ==
  LET r == isImageWallpaper(file, writable, Stat(fsys, imagePath))
      t == targetPath(outputDir, imagePath)
      c == copyFile(fsys, imagePath, t, outcome)
  IN  IF r.fatal
      THEN [fs |-> fsys, file |-> r.file, fatal |-> TRUE,
            log |-> << Entry("fatal", imagePath) >>]
      ELSE IF r.err
      THEN [fs |-> fsys, file |-> r.file, fatal |-> FALSE,
            log |-> << Entry("error", imagePath) >>]
      ELSE IF ~r.ok
      THEN [fs |-> fsys, file |-> r.file, fatal |-> FALSE,
            log |-> << Entry("small", imagePath) >>]
      ELSE [fs |-> c.fs, file |-> r.file, fatal |-> FALSE,
            log |-> IF c.err = "none"
                    THEN << Entry("copy", imagePath) >>
                    ELSE << Entry("copy", imagePath), Entry(c.err, imagePath) >>]

\* The callback of copyWallpapersTo (lines 83-108) on a file entry: the file
\* system and configuration file it leaves, the lines it logs, and whether
\* log.Fatal ended the process inside it.
walkDirFunc(fsys, file, writable, outputDir, imagePath, outcome) ==
  LET r == isImageWallpaper(file, writable, Stat(fsys, imagePath))
      t == targetPath(outputDir, imagePath)
      c == copyFile(fsys, imagePath, t, outcome)
  IN  IF r.fatal
      THEN [fs |-> fsys, file |-> r.file, fatal |-> TRUE,
            log |-> << Entry("fatal", imagePath) >>]
      ELSE IF r.err
      THEN [fs |-> fsys, file |-> r.file, fatal |-> FALSE,
            log |-> << Entry("error", imagePath) >>]
      ELSE IF ~r.ok
      THEN [fs |-> fsys, file |-> r.file, fatal |-> FALSE,
            log |-> << Entry("small", imagePath) >>]
      ELSE IF Stat(fsys, t).kind = "absent"
      THEN [fs |-> c.fs, file |-> r.file, fatal |-> FALSE,
            log |-> IF c.err = "none"
                    THEN << Entry("copy", imagePath) >>
                    ELSE << Entry("copy", imagePath), Entry(c.err, imagePath) >>]
      ELSE [fs |-> fsys, file |-> r.file, fatal |-> FALSE,
            log |-> << Entry("exists", imagePath) >>]

\* os.ReadDir as WalkDir uses it: the entries of dir, sorted by name.
ReadDir(fsys, dir) ==
  SelectSeq(SrcEntries, LAMBDA p : Len(p) > 1 /\ Dir(p) = dir /\ fsys[p].kind # "absent")

\* ------------------------------------------------------------------ state
VARIABLES
  fs,          \* the file system: path -> entry
  cfgFile,     \* wspotsave.ini
  cfgWritable, \* whether SaveTo can write wspotsave.ini
  stage,       \* where main is: "load", "checkSrc", "checkOut", "walk"
  exit,        \* "none" while running, then "ok" (exit 0) or "fatal" (exit 1)
  config,      \* main's config (line 45)
  todo,        \* entries WalkDir has still to hand to the callback
  walkErr,     \* whether the callback was handed a ReadDir error
  log,         \* logs.txt lines of this run
  run,         \* the invocation's number
  cfgEdits,    \* edits of wspotsave.ini by the user so far
  editedInRun, \* whether such an edit happened since this run started
  fs0,         \* the file system when this run started
  prev         \* the previous run: its final file system, log and exit

vars == << fs, cfgFile, cfgWritable, stage, exit, config, todo, walkErr, log,
           run, cfgEdits, editedInRun, fs0, prev >>

\* ------------------------------------------------------------------ inputs
Dims == 0..MaxDim
\* Source files of a populated tree: none, a file that is no image, and
\* images of the sizes around the largest threshold.
TreeFiles ==
  {Absent, NoExif}
    \cup { Image(IntTag(w), IntTag(h)) : w \in (MaxDim - 1)..MaxDim, h \in {MaxDim} }
\* Source files of a one-file tree: every size, tags that are missing or
\* not integers, and files that are no image or cannot be opened.
AnyTag == {NoTag, BadTag} \cup { IntTag(n) : n \in Dims }
LoneFiles == { Image(wt, ht) : wt \in AnyTag, ht \in AnyTag } \cup {NoExif, Unreadable}
\* wspotsave.ini as found, for a populated tree.
TreeInis ==
  {BadIni,
   IniFile(TRUE, TRUE, IntTag(MaxDim), IntTag(MaxDim)),
   IniFile(TRUE, TRUE, BadTag, IntTag(MaxDim)),
   IniFile(FALSE, TRUE, IntTag(MaxDim), IntTag(MaxDim))}
\* What the user's edit leaves: a file that does not parse, or a lower
\* minimum width.
EditedInis == {BadIni, IniFile(TRUE, TRUE, IntTag(MaxDim - 1), IntTag(MaxDim))}
\* wspotsave.ini for a one-file tree: none yet, or every pair of thresholds.
LoneInis ==
  {NoIni} \cup { IniFile(TRUE, TRUE, IntTag(mw), IntTag(mh)) : mw \in Dims, mh \in Dims }

\* A file system: the source tree, the output folder and what it holds.
MkFs(root, a, b, d, da, out, oa, ob) ==
  [p \in Paths |->
     IF p = SrcRoot THEN root
     ELSE IF p = SrcFiles[1] THEN a
     ELSE IF p = SrcFiles[2] THEN b
     ELSE IF p = SubDir THEN d
     ELSE IF p = SrcFiles[3] THEN da
     ELSE IF p = OutRoot THEN out
     ELSE IF p = Join(OutRoot, AddJpg(<<"a">>)) THEN oa
     ELSE ob]

\* Populated trees: both folders exist.
TreeFs ==
  { MkFs(Directory(TRUE), a, b, d, da, Directory(TRUE), oa, Absent) :
      a \in TreeFiles, b \in TreeFiles,
      d \in {Absent, Directory(TRUE), Directory(FALSE)},
      da \in TreeFiles, oa \in {Absent, Foreign} }
\* A folder is missing or is a file: nothing lies below it.
BrokenFs ==
  { MkFs(root, Absent, Absent, Absent, Absent, out, Absent, Absent) :
      root \in {Absent, NoExif, Directory(TRUE)}, out \in {Absent, NoExif, Directory(TRUE)} }
\* One image in the source folder.
LoneFs ==
  { MkFs(Directory(TRUE), a, Absent, Absent, Absent, Directory(TRUE), Absent, Absent) :
      a \in LoneFiles }

WellFormedFs(f) ==
  /\ f[SubDir].kind = "absent" => f[SrcFiles[3]].kind = "absent"
  /\ f[SubDir] = Directory(FALSE) => f[SrcFiles[3]] = Image(IntTag(MaxDim), IntTag(MaxDim))
  /\ f[SrcRoot].kind # "dir" => \A i \in 2..Len(SrcEntries) : f[SrcEntries[i]].kind = "absent"
  /\ f[OutRoot].kind # "dir" => \A p \in OutFiles : f[p].kind = "absent"

Init ==
  /\ \/ /\ fs \in { f \in TreeFs \cup BrokenFs : WellFormedFs(f) }
        /\ cfgFile \in TreeInis
        /\ cfgWritable \in BOOLEAN
     \/ /\ fs \in LoneFs
        /\ cfgFile \in LoneInis
        /\ cfgWritable = TRUE
  /\ stage = "load"
  /\ exit = "none"
  /\ config = ZeroConfig
  /\ todo = << >>
  /\ walkErr = FALSE
  /\ log = << >>
  /\ run = 1
  /\ cfgEdits = 0
  /\ editedInRun = FALSE
  /\ fs0 = fs
  /\ prev = [fs |-> fs, log |-> << >>, exit |-> "none"]

\* ---------------------------------------------------------------- actions
\* main, line 45: config := loadConfig()
LoadConfig ==
  /\ exit = "none" /\ stage = "load"
  /\ LET c == loadConfig(cfgFile, cfgWritable)
     IN  /\ cfgFile' = c.file
         /\ config' = c.config
         /\ IF c.fatal
            THEN /\ exit' = "fatal"
                 /\ log' = Append(log, Entry("fatal", EmptyPath))
                 /\ stage' = stage
            ELSE /\ exit' = exit
                 /\ log' = log
                 /\ stage' = "checkSrc"
  /\ UNCHANGED << fs, cfgWritable, todo, walkErr, run, cfgEdits, editedInRun, fs0, prev >>

\* main, lines 47-50: checkDirectory(sourceDir)
CheckSource ==
  /\ exit = "none" /\ stage = "checkSrc"
  /\ IF checkDirectory(fs, config.SourceDir)
     THEN /\ exit' = "fatal"
          /\ log' = Append(log, Entry("fatal", config.SourceDir))
          /\ stage' = stage
     ELSE /\ exit' = exit
          /\ log' = log
          /\ stage' = "checkOut"
  /\ UNCHANGED << fs, cfgFile, cfgWritable, config, todo, walkErr, run, cfgEdits,
                  editedInRun, fs0, prev >>

\* main, lines 51-55: checkDirectory(outputDir), then filepath.WalkDir
\* starts at sourceDir.
CheckOutput ==
  /\ exit = "none" /\ stage = "checkOut"
  /\ IF checkDirectory(fs, config.OutputDir)
     THEN /\ exit' = "fatal"
          /\ log' = Append(log, Entry("fatal", config.OutputDir))
          /\ stage' = stage
          /\ todo' = todo
     ELSE /\ exit' = exit
          /\ log' = log
          /\ stage' = "walk"
          /\ todo' = << config.SourceDir >>
  /\ UNCHANGED << fs, cfgFile, cfgWritable, config, walkErr, run, cfgEdits,
                  editedInRun, fs0, prev >>

\* WalkDir on a directory: the callback returns nil at once (lines 84-86),
\* ReadDir lists the directory, and a ReadDir error is handed to the
\* callback, which ignores it (line 83) and returns nil again.
VisitDir ==
  /\ exit = "none" /\ stage = "walk" /\ todo # << >>
  /\ Stat(fs, Head(todo)).kind = "dir"
  /\ IF Stat(fs, Head(todo)).readable
     THEN /\ todo' = ReadDir(fs, Head(todo)) \o Tail(todo)
          /\ walkErr' = walkErr
     ELSE /\ todo' = Tail(todo)
          /\ walkErr' = TRUE
  /\ UNCHANGED << fs, cfgFile, cfgWritable, stage, exit, config, log, run, cfgEdits,
                  editedInRun, fs0, prev >>

\* WalkDir on a file: the callback of copyWallpapersTo, lines 87-107.
VisitFile ==
  /\ exit = "none" /\ stage = "walk" /\ todo # << >>
  /\ Stat(fs, Head(todo)).kind = "file"
  /\ \E outcome \in CopyOutcomes :
       LET r == walkDirFunc(fs, cfgFile, cfgWritable, config.OutputDir, Head(todo), outcome)
       IN  /\ fs' = r.fs
           /\ cfgFile' = r.file
           /\ log' = log \o r.log
           /\ exit' = IF r.fatal THEN "fatal" ELSE exit
           /\ todo' = IF r.fatal THEN todo ELSE Tail(todo)
  /\ UNCHANGED << cfgWritable, stage, config, walkErr, run, cfgEdits, editedInRun, fs0, prev >>

\* main, lines 55-59: WalkDir returned nil, main returns.
WalkDone ==
  /\ exit = "none" /\ stage = "walk" /\ todo = << >>
  /\ exit' = "ok"
  /\ UNCHANGED << fs, cfgFile, cfgWritable, stage, config, todo, walkErr, log, run,
                  cfgEdits, editedInRun, fs0, prev >>

\* The program is started again over the file system the last run left.
StartRun ==
  /\ exit # "none" /\ run < MaxRuns
  /\ run' = run + 1
  /\ prev' = [fs |-> fs, log |-> log, exit |-> exit]
  /\ fs0' = fs
  /\ stage' = "load"
  /\ exit' = "none"
  /\ config' = ZeroConfig
  /\ todo' = << >>
  /\ walkErr' = FALSE
  /\ log' = << >>
  /\ editedInRun' = FALSE
  /\ UNCHANGED << fs, cfgFile, cfgWritable, cfgEdits >>

\* The user edits or damages wspotsave.ini, before the program reads it
\* at line 45 or while the walk is under way (the program reads the file
\* nowhere between).
EditConfig ==
  /\ cfgEdits < MaxCfgEdits
  /\ exit = "none" /\ stage \in {"load", "walk"}
  /\ cfgFile' \in (EditedInis \ {cfgFile})
  /\ cfgEdits' = cfgEdits + 1
  /\ editedInRun' = TRUE
  /\ UNCHANGED << fs, cfgWritable, stage, exit, config, todo, walkErr, log, run, fs0, prev >>

Next ==
  \/ LoadConfig
  \/ CheckSource
  \/ CheckOutput
  \/ VisitDir
  \/ VisitFile
  \/ WalkDone
  \/ StartRun
  \/ EditConfig

Spec == Init /\ [][Next]_vars

\* ----------------------------------------------------------------- claims
\* How many lines of kind k the log l holds.
Count(l, k) == Cardinality({ i \in 1..Len(l) : l[i].kind = k })
\* The step is the callback returning from the file at the head of todo.
Visited == /\ exit = "none" /\ stage = "walk" /\ todo # << >>
           /\ Stat(fs, Head(todo)).kind = "file"
           /\ todo' = Tail(todo)
\* The file's EXIF tags both read as integers.
HasSize(f) == /\ f.kind = "file" /\ f.readable /\ f.exif
              /\ f.w.present /\ f.w.numeric /\ f.h.present /\ f.h.numeric
\* wspotsave.ini parses and both its thresholds are integers.
HasThresholds(ini) == /\ ini.state = "ok"
                      /\ ini.w.present /\ ini.w.numeric /\ ini.h.present /\ ini.h.numeric

\* C3: for a file whose dimensions were extracted and a configuration whose
\* thresholds are (minimumWidth, minimumHeight), the callback treats the
\* file as a wallpaper (goes on to the copy / already-exists branch instead
\* of logging "too small") exactly when width >= minimumWidth and
\* height >= minimumHeight.
C3_QualifiesIffAtLeastThreshold ==
  [][ (Visited /\ HasSize(fs[Head(todo)]) /\ HasThresholds(cfgFile))
        => /\ Len(log') > Len(log)
           /\ (log'[Len(log) + 1].kind \in {"copy", "exists"})
                <=> (/\ fs[Head(todo)].w.val >= cfgFile.w.val
                     /\ fs[Head(todo)].h.val >= cfgFile.h.val)
           /\ (log'[Len(log) + 1].kind = "small")
                <=> (\/ fs[Head(todo)].w.val < cfgFile.w.val
                     \/ fs[Head(todo)].h.val < cfgFile.h.val) ]_vars

\* A file exactly as large as a non-zero threshold was copied, and one a
\* pixel narrower would not have been.
C3_Witness ==
  /\ cfgEdits = 0 /\ HasThresholds(cfgFile) /\ cfgFile.w.val > 0 /\ cfgFile.h.val > 0
  /\ \E i \in 1..Len(log) :
       /\ log[i].kind = "copy"
       /\ fs[log[i].path].w.val = cfgFile.w.val
       /\ fs[log[i].path].h.val = cfgFile.h.val

\* C2: when the callback is on a qualifying file and something already is
\* at outputDir/<name>.jpg, the step leaves that file as it is, whatever it
\* holds, and logs exactly one line, "already exists".
C2_NoClobber ==
  [][ (/\ Visited
       /\ isImageWallpaper(cfgFile, cfgWritable, fs[Head(todo)]).ok
       /\ Stat(fs, Join(config.OutputDir, AddJpg(Name(Head(todo))))).kind # "absent")
        => /\ fs' = fs
           /\ log' = Append(log, Entry("exists", Head(todo))) ]_vars

\* A file that was in the output folder before the run, and is no copy of
\* the source file of that name, is still there after the source file was
\* found to qualify.
C2_Witness ==
  \E i \in 1..Len(log) :
    /\ log[i].kind = "exists"
    /\ fs[Join(OutRoot, AddJpg(Name(log[i].path)))] = Foreign
    /\ fs[Join(OutRoot, AddJpg(Name(log[i].path)))] # fs[log[i].path]

\* C9: during a run nothing under the source folder changes, and every path
\* whose content differs from what it was when the run started is
\* outputDir/<name>.jpg for a source file <name> for which the run logged
\* "copying file" (it was visited and qualified).
C9_FilesystemFrame ==
  \A p \in Paths :
    fs[p] # fs0[p] =>
      /\ p \notin Range(SrcEntries)
      /\ \E i \in 1..Len(log) :
           /\ log[i].kind = "copy"
           /\ log[i].path \in SrcFileSet
           /\ p = Join(OutRoot, AddJpg(Name(log[i].path)))

\* A run ended having created <name>.jpg with the content of a source file.
C9_Witness ==
  /\ exit = "ok"
  /\ \E q \in SrcFileSet :
       /\ fs0[Join(OutRoot, AddJpg(Name(q)))] = Absent
       /\ fs[Join(OutRoot, AddJpg(Name(q)))] = fs[q]
       /\ fs[q].kind = "file"

\* C6: once the configuration is loaded, if the configured source or output
\* path is missing or no directory, the run never walks: no entry is queued
\* or visited, the log holds no per-file line, no file is created or
\* changed, and the run does not end with success. The output folder is
\* checked only after the source folder passed.
C6_PreconditionsBeforeTraversal ==
  /\ (stage # "load" /\ (\/ Stat(fs, config.SourceDir).kind # "dir"
                         \/ Stat(fs, config.OutputDir).kind # "dir"))
       => /\ stage # "walk"
          /\ exit # "ok"
          /\ todo = << >>
          /\ \A i \in 1..Len(log) : log[i].kind = "fatal"
          /\ fs = fs0
  /\ stage = "checkOut" => Stat(fs, config.SourceDir).kind = "dir"

\* A run ended with a fatal error at the check of an output path that is a
\* file, with nothing logged but that error.
C6_Witness ==
  /\ exit = "fatal" /\ stage = "checkOut"
  /\ Stat(fs, config.OutputDir).kind = "file"
  /\ Len(log) = 1

\* The previous run and this one both ran with wspotsave.ini untouched by
\* the user, and the previous run completed.
SecondRunUnchanged == run >= 2 /\ prev.exit = "ok" /\ cfgEdits = 0

BadFiles == { p \in SrcFileSet : fs0[p].kind = "file" /\ ~HasSize(fs0[p]) }
ValidFiles == { p \in SrcFileSet : /\ HasSize(fs0[p])
                                   /\ fs0[p].w.val >= config.MinimumWidth
                                   /\ fs0[p].h.val >= config.MinimumHeight }
\* The tree holds one bad file and otherwise qualifying files only, in
\* directories that can be read; the output folder starts empty; and the
\* user leaves wspotsave.ini alone during the run.
IsolationCase ==
  /\ stage = "walk" /\ ~editedInRun
  /\ \A p \in OutFiles : fs0[p] = Absent
  /\ Cardinality(BadFiles) = 1
  /\ \A p \in SrcFileSet : fs0[p].kind = "file" => p \in BadFiles \cup ValidFiles
  /\ \A p \in Range(SrcEntries) : fs0[p].kind = "dir" => fs0[p].readable

\* The log's lines for copies that failed.
CopyFailures(l) == Count(l, "createFailed") + Count(l, "openFailed") + Count(l, "copyFailed")

\* C4 as stated: with one bad file and N qualifying files, a run in which
\* no copy fails copies exactly N files and logs one extraction error.
C4_AsStated ==
  (IsolationCase /\ exit = "ok" /\ CopyFailures(log) = 0)
    => /\ Count(log, "copy") = Cardinality(ValidFiles)
       /\ Count(log, "error") = 1

\* C4, amended: the run is never ended by a file; when it is over, every
\* qualifying file has one "copying file" or "already exists" line, one
\* extraction error is logged and no other per-file line; and a run in
\* which no copy fails has copied one file per distinct base name among
\* the N qualifying files (N when the names differ: files of the same name
\* in different directories share one destination, and the later ones find
\* it there), each destination holding the content of a qualifying file of
\* that name.
C4_Isolation ==
  IsolationCase
    => /\ exit # "fatal"
       /\ (exit = "ok")
            => /\ Count(log, "copy") + Count(log, "exists") = Cardinality(ValidFiles)
               /\ Count(log, "error") = 1
               /\ Count(log, "small") = 0
               /\ (CopyFailures(log) = 0)
                    => /\ Count(log, "copy") = Cardinality({ Name(p) : p \in ValidFiles })
                       /\ \A p \in ValidFiles :
                            \E q \in ValidFiles :
                              /\ Name(q) = Name(p)
                              /\ fs[Join(OutRoot, AddJpg(Name(p)))] = fs0[q]

\* A run over one bad file and two qualifying files of different names
\* ended with two copies and one extraction error.
C4_Witness ==
  /\ IsolationCase /\ exit = "ok"
  /\ Cardinality(ValidFiles) = 2
  /\ Count(log, "copy") = 2
  /\ Count(log, "error") = 1
  /\ CopyFailures(log) = 0

\* C5: once the walk has begun nothing in the per-file step ends the
\* process: a run that ends with a fatal error ends before the walk.
C5_NoFileEndsTheRun ==
  exit = "fatal" => stage # "walk"

\* C7: a run in which the callback was handed a directory-read error does
\* not end with success.
C7_TraversalErrorsAbort ==
  ~(exit = "ok" /\ walkErr)

\* C8: when wspotsave.ini exists, main gets past loading it only if the
\* file parsed and both thresholds in it parsed as integers; otherwise the
\* run ends there with a configuration error, so that no file is ever
\* judged against a substituted threshold. (A file that does not exist yet
\* is created with the documented defaults.)
C8_ConfigErrorsAreFatal ==
  [][ (stage = "load" /\ stage' # "load" /\ cfgFile.state # "missing")
        => HasThresholds(cfgFile) ]_vars

\* The file's size meets the thresholds main loaded at line 45.
MeetsLoaded(f) == /\ HasSize(f)
                  /\ f.w.val >= config.MinimumWidth
                  /\ f.h.val >= config.MinimumHeight

\* C10: every file of a run is judged against the thresholds loaded at the
\* start of the run: each "too small" line is for a file below them, each
\* "copying file" or "already exists" line for a file that meets them.
C10_ThresholdLoadedOnce ==
  \A i \in 1..Len(log) :
    /\ log[i].kind = "small" => ~MeetsLoaded(fs0[log[i].path])
    /\ log[i].kind \in {"copy", "exists"} => MeetsLoaded(fs0[log[i].path])

====
